---- MODULE Spec2Model ----
(***************************************************************************)
(* Model of asset-sources/blender-export.py: a post-load handler that      *)
(* exports the loaded scene as GLB to the path given after "--" on the     *)
(* command line.                                                           *)
(*                                                                         *)
(* State: sys.argv, the host's bpy.app.handlers.load_post list, whether    *)
(* the script's module-level code has run, and the history of file-loaded  *)
(* events with what each handler invocation printed, called and raised.    *)
(***************************************************************************)
EXTENDS Integers, Sequences, FiniteSets, TLC

VARIABLES argv, load_post, scriptRun, history

vars == <<argv, load_post, scriptRun, history>>

----------------------------------------------------------------------------
(* Bounds *)

MaxArgs == 3
MaxLoads == 2

(* Command-line tokens: the separator, the empty string, a host flag and   *)
(* two spellings of one relative path.                                     *)
Tokens == {"--", "", "-b", "m.glb", "./m.glb"}

ArgLists == UNION {[1..n -> Tokens] : n \in 1..MaxArgs}

(* What the host passes to a load_post handler (arity differs by version). *)
HostArgs == {<<>>, <<"scene.blend">>}

(* What bpy.ops.export_scene.gltf does: finishes, or raises.               *)
GltfOutcomes == {"FINISHED", "RuntimeError"}

----------------------------------------------------------------------------
(* Python semantics used by the handler *)

Min(S) == CHOOSE m \in S : \A x \in S : m <= x

Ok(v) == [exc |-> "None", value |-> v]
Raise(e) == [exc |-> e, value |-> ""]

(* Variant: a find-style lookup that answers -1 instead of raising. *)
ListIndex_find(list, x) ==
  LET hits == {i \in 1..Len(list) : list[i] = x}
  IN IF hits = {} THEN [exc |-> "None", value |-> 0 - 1]
     ELSE [exc |-> "None", value |-> Min(hits) - 1]

(* list.index(x): 0-based position of the first element equal to x. *)
ListIndex(list, x) ==
  LET hits == {i \in 1..Len(list) : list[i] = x}
  IN IF hits = {} THEN [exc |-> "ValueError", value |-> 0]
     ELSE [exc |-> "None", value |-> Min(hits) - 1]

(* list[i] with a 0-based index; negative indices count from the end. *)
ListGetItem(list, i) ==
  IF i >= 0 /\ i < Len(list) THEN Ok(list[i + 1])
  ELSE IF i < 0 /\ i >= 0 - Len(list) THEN Ok(list[Len(list) + i + 1])
  ELSE Raise("IndexError")

(* Exception classes and the classes each one is an instance of. *)
IsInstance(exc, cls) ==
  \/ exc = cls
  \/ cls = "BaseException"
  \/ cls = "Exception" /\ exc \in {"ValueError", "IndexError", "RuntimeError"}

----------------------------------------------------------------------------
(* The handler *)

UsageMessage == "Give the target file after a '--' on the command line"

(* os.path.normpath on the tokens of the model. *)
NormPath(p) ==
  CASE p = "./m.glb" -> "m.glb"
    [] p = "" -> "."
    [] OTHER -> p

(* Variant: the path is normalised before use. *)
TargetFile_normalised(sysargv) ==
  LET idx == ListIndex(sysargv, "--")
  IN IF idx.exc # "None" THEN Raise(idx.exc)
     ELSE LET t == ListGetItem(sysargv, idx.value + 1)
          IN IF t.exc # "None" THEN t ELSE Ok(NormPath(t.value))

(* Variant: the last "--" is the separator. *)
TargetFile_lastSep(sysargv) ==
  LET hits == {i \in 1..Len(sysargv) : sysargv[i] = "--"}
  IN IF hits = {} THEN Raise("ValueError")
     ELSE ListGetItem(sysargv, (CHOOSE m \in hits : \A x \in hits : x <= m))

(* The try body: sys.argv[sys.argv.index("--") + 1] *)
TargetFile(sysargv) ==
  LET idx == ListIndex(sysargv, "--")
  IN IF idx.exc # "None" THEN Raise(idx.exc)
     ELSE ListGetItem(sysargv, idx.value + 1)

(* Variant: the except clause names ValueError only. *)
ExceptClass_valueError == "ValueError"

(* The class named by the except clause. *)
ExceptClass == "Exception"

(* Variant: normals are exported. *)
GltfKwargs_normals(target_file) ==
  [filepath |-> target_file,
   check_existing |-> FALSE,
   export_format |-> "GLB",
   use_visible |-> TRUE,
   export_colors |-> TRUE,
   export_skins |-> TRUE,
   export_animations |-> TRUE,
   export_def_bones |-> TRUE,
   export_morph |-> TRUE,
   optimize_animation_size |-> TRUE,
   export_yup |-> TRUE,
   export_image_format |-> "NONE",
   export_texcoords |-> FALSE,
   export_normals |-> TRUE,
   export_tangents |-> FALSE,
   export_morph_normal |-> FALSE,
   export_morph_tangent |-> FALSE,
   export_materials |-> "NONE"]

(* Keyword arguments of the bpy.ops.export_scene.gltf call. *)
GltfKwargs(target_file) ==
  [filepath |-> target_file,
   check_existing |-> FALSE,
   export_format |-> "GLB",
   use_visible |-> TRUE,
   export_colors |-> TRUE,
   export_skins |-> TRUE,
   export_animations |-> TRUE,
   export_def_bones |-> TRUE,
   export_morph |-> TRUE,
   optimize_animation_size |-> TRUE,
   export_yup |-> TRUE,
   export_image_format |-> "NONE",
   export_texcoords |-> FALSE,
   export_normals |-> FALSE,
   export_tangents |-> FALSE,
   export_morph_normal |-> FALSE,
   export_morph_tangent |-> FALSE,
   export_materials |-> "NONE"]

(* The result of one call of export: what it printed, the exporter         *)
(* calls it made, and the exception that left it ("None": it returned).    *)
Outcome(printed, calls, raised) ==
  [stdout |-> printed, calls |-> calls, raised |-> raised]

(* Variant: the exporter call sits inside the try block. *)
export_gltfInsideTry(hostargs, sysargv, gltf) ==
  LET t == TargetFile(sysargv)
  IN IF t.exc # "None"
     THEN IF IsInstance(t.exc, ExceptClass)
          THEN Outcome(<<UsageMessage>>, <<>>, "None")
          ELSE Outcome(<<>>, <<>>, t.exc)
     ELSE IF gltf = "FINISHED"
          THEN Outcome(<<>>, <<GltfKwargs(t.value)>>, "None")
          ELSE IF IsInstance(gltf, ExceptClass)
               THEN Outcome(<<UsageMessage>>, <<GltfKwargs(t.value)>>, "None")
               ELSE Outcome(<<>>, <<GltfKwargs(t.value)>>, gltf)

(* Variant: no return after the usage message; a default path is used. *)
export_noReturn(hostargs, sysargv, gltf) ==
  LET t == TargetFile(sysargv)
  IN IF t.exc # "None"
     THEN IF IsInstance(t.exc, ExceptClass)
          THEN Outcome(<<UsageMessage>>, <<GltfKwargs("m.glb")>>,
                       IF gltf = "FINISHED" THEN "None" ELSE gltf)
          ELSE Outcome(<<>>, <<>>, t.exc)
     ELSE Outcome(<<>>, <<GltfKwargs(t.value)>>,
                  IF gltf = "FINISHED" THEN "None" ELSE gltf)

(* Variant: the host's first argument, when given, is the target. *)
export_usesHostArgs(hostargs, sysargv, gltf) ==
  LET t == IF Len(hostargs) > 0 THEN Ok(hostargs[1]) ELSE TargetFile(sysargv)
  IN IF t.exc # "None"
     THEN IF IsInstance(t.exc, ExceptClass)
          THEN Outcome(<<UsageMessage>>, <<>>, "None")
          ELSE Outcome(<<>>, <<>>, t.exc)
     ELSE Outcome(<<>>, <<GltfKwargs(t.value)>>,
                  IF gltf = "FINISHED" THEN "None" ELSE gltf)

export(hostargs, sysargv, gltf) ==
  LET t == TargetFile(sysargv)
  IN IF t.exc # "None"
     THEN IF IsInstance(t.exc, ExceptClass)
          THEN Outcome(<<UsageMessage>>, <<>>, "None")
          ELSE Outcome(<<>>, <<>>, t.exc)
     ELSE Outcome(<<>>, <<GltfKwargs(t.value)>>,
                  IF gltf = "FINISHED" THEN "None" ELSE gltf)

(* Variant: the handler is not marked persistent. *)
ExportHandler_notPersistent == [fn |-> "export", persistent |-> FALSE]

(* @persistent def export: the entry appended to load_post. *)
ExportHandler == [fn |-> "export", persistent |-> TRUE]

----------------------------------------------------------------------------
(* The process *)

Init ==
  /\ argv \in ArgLists
  /\ load_post = <<>>
  /\ scriptRun = FALSE
  /\ history = <<>>

(* Module-level code: bpy.app.handlers.load_post.append(export) *)
RunScript ==
  /\ ~scriptRun
  /\ scriptRun' = TRUE
  /\ load_post' = Append(load_post, ExportHandler)
  /\ UNCHANGED <<argv, history>>

IsPersistent(h) == h.persistent

(* Variant: the handler removes the separator from sys.argv once it has    *)
(* read the target.                                                        *)
LoadPost_consumesArgv(hostargs, gltf) ==
  /\ Len(history) < MaxLoads
  /\ LET kept == SelectSeq(load_post, IsPersistent)
         idx == ListIndex(argv, "--")
     IN /\ load_post' = kept
        /\ history' = Append(history,
             [registered |-> scriptRun,
              hostargs |-> hostargs,
              gltf |-> gltf,
              invocations |-> [i \in 1..Len(kept) |->
                                 export(hostargs, argv, gltf)]])
        /\ argv' = IF kept # <<>> /\ idx.exc = "None"
                   THEN SubSeq(argv, 1, idx.value) \o
                        SubSeq(argv, idx.value + 2, Len(argv))
                   ELSE argv
  /\ UNCHANGED scriptRun

(* The host finishes loading a file: handlers not marked persistent are    *)
(* dropped, then every handler left on load_post is called with the        *)
(* host's arguments.  An exception leaving a handler reaches the host,     *)
(* which goes on.                                                          *)
LoadPost(hostargs, gltf) ==
  /\ Len(history) < MaxLoads
  /\ LET kept == SelectSeq(load_post, IsPersistent)
     IN /\ load_post' = kept
        /\ history' = Append(history,
             [registered |-> scriptRun,
              hostargs |-> hostargs,
              gltf |-> gltf,
              invocations |-> [i \in 1..Len(kept) |->
                                 export(hostargs, argv, gltf)]])
  /\ UNCHANGED <<argv, scriptRun>>

Next ==
  \/ RunScript
  \/ \E hostargs \in HostArgs, gltf \in GltfOutcomes : LoadPost(hostargs, gltf)

Spec == Init /\ [][Next]_vars

----------------------------------------------------------------------------
(* Vocabulary of the properties *)

Events == 1..Len(history)

(* The results of every handler invocation so far. *)
Results ==
  UNION {{history[e].invocations[i] : i \in 1..Len(history[e].invocations)}
         : e \in Events}

SepPositions(a) == {i \in 1..Len(a) : a[i] = "--"}
HasSep(a) == SepPositions(a) # {}
FirstSep(a) == Min(SepPositions(a))

(* The command line names a target: the first "--" has a successor. *)
Resolvable(a) == HasSep(a) /\ FirstSep(a) < Len(a)

PrintedUsage(r) == r.stdout = <<UsageMessage>>

TypeOK ==
  /\ argv \in ArgLists
  /\ scriptRun \in BOOLEAN
  /\ Len(history) <= MaxLoads
  /\ \A r \in Results :
       /\ r.raised \in {"None", "ValueError", "IndexError", "RuntimeError"}
       /\ Len(r.stdout) <= 1

----------------------------------------------------------------------------
(* C1, as stated: whenever some "--" of sys.argv is followed by an         *)
(* argument, an invocation of export calls the exporter with filepath      *)
(* equal to that argument.                                                 *)
C1_AnySepPath ==
  \A r \in Results :
    \A k \in SepPositions(argv) :
      k < Len(argv) =>
        /\ Len(r.calls) = 1
        /\ r.calls[1].filepath = argv[k + 1]

(* C1, amended: when the first "--" of sys.argv is followed by an          *)
(* argument, an invocation of export calls the exporter once with          *)
(* filepath equal to that argument, unchanged.                             *)
C1_FirstSepPath ==
  \A r \in Results :
    Resolvable(argv) =>
      /\ Len(r.calls) = 1
      /\ r.calls[1].filepath = argv[FirstSep(argv) + 1]

(* C1 witness: an invocation exported to the dotted relative path given    *)
(* after the only "--".                                                    *)
C1_Witness ==
  /\ Cardinality(SepPositions(argv)) = 1
  /\ Resolvable(argv)
  /\ argv[FirstSep(argv) + 1] = "./m.glb"
  /\ \E r \in Results : Len(r.calls) = 1 /\ r.calls[1].filepath = "./m.glb"

(* C2, as stated: when sys.argv has no "--", or its last argument is "--", *)
(* an invocation of export prints the usage message and makes no exporter  *)
(* call.                                                                   *)
C2_NoSepOrSepLast ==
  \A r \in Results :
    (~HasSep(argv) \/ argv[Len(argv)] = "--") =>
      PrintedUsage(r) /\ r.calls = <<>>

(* C2, amended: when sys.argv has no "--", or its first "--" is its last   *)
(* argument, an invocation of export prints the usage message and makes    *)
(* no exporter call.                                                       *)
C2_NoSepOrFirstSepLast ==
  \A r \in Results :
    (~HasSep(argv) \/ FirstSep(argv) = Len(argv)) =>
      PrintedUsage(r) /\ r.calls = <<>>

(* C2 witness: the only "--" is the last argument, after other arguments,  *)
(* and an invocation printed the usage message without an exporter call.   *)
C2_Witness ==
  /\ Len(argv) >= 2
  /\ HasSep(argv)
  /\ FirstSep(argv) = Len(argv)
  /\ \E r \in Results : PrintedUsage(r) /\ r.calls = <<>>

(* C3: every exporter call carries the same fixed options; only filepath   *)
(* varies.                                                                 *)
C3_FixedOptions ==
  \A r \in Results :
    \A n \in 1..Len(r.calls) :
      LET c == r.calls[n]
      IN /\ DOMAIN c = {"filepath", "check_existing", "export_format",
                        "use_visible", "export_colors", "export_skins",
                        "export_animations", "export_def_bones",
                        "export_morph", "optimize_animation_size",
                        "export_yup", "export_image_format",
                        "export_texcoords", "export_normals",
                        "export_tangents", "export_morph_normal",
                        "export_morph_tangent", "export_materials"}
         /\ c.check_existing = FALSE
         /\ c.export_format = "GLB"
         /\ c.use_visible /\ c.export_colors /\ c.export_skins
         /\ c.export_animations /\ c.export_def_bones /\ c.export_morph
         /\ c.optimize_animation_size /\ c.export_yup
         /\ ~c.export_texcoords /\ ~c.export_normals /\ ~c.export_tangents
         /\ ~c.export_morph_normal /\ ~c.export_morph_tangent
         /\ c.export_image_format = "NONE"
         /\ c.export_materials = "NONE"

(* C3 witness: two load events each made an exporter call, with different  *)
(* host arguments.                                                         *)
C3_Witness ==
  \E e1, e2 \in Events :
    /\ history[e1].hostargs # history[e2].hostargs
    /\ \E i \in 1..Len(history[e1].invocations) :
         history[e1].invocations[i].calls # <<>>
    /\ \E i \in 1..Len(history[e2].invocations) :
         history[e2].invocations[i].calls # <<>>

(* C4: when sys.argv names no target, export returns normally (nothing is  *)
(* raised into the host), and the usage message is printed only then.      *)
C4_UsageReturnsNormally ==
  \A r \in Results :
    /\ ~Resolvable(argv) => r.raised = "None"
    /\ r.stdout # <<>> => ~Resolvable(argv)

(* C4 witness: an invocation with "--" as the last argument returned       *)
(* normally while the exporter would have failed.                          *)
C4_Witness ==
  /\ HasSep(argv)
  /\ ~Resolvable(argv)
  /\ \E e \in Events :
       /\ history[e].gltf = "RuntimeError"
       /\ \E i \in 1..Len(history[e].invocations) :
            /\ history[e].invocations[i].raised = "None"
            /\ PrintedUsage(history[e].invocations[i])

(* C5: when the exporter fails, the failure leaves export, no usage        *)
(* message is printed and the exporter was called once only.               *)
C5_ExportErrorPropagates ==
  \A e \in Events :
    \A i \in 1..Len(history[e].invocations) :
      LET r == history[e].invocations[i]
      IN (Resolvable(argv) /\ history[e].gltf # "FINISHED") =>
           /\ r.raised = history[e].gltf
           /\ r.stdout = <<>>
           /\ Len(r.calls) = 1

(* C5 witness: an exporter failure reached the host. *)
C5_Witness ==
  \E e \in Events :
    /\ history[e].gltf = "RuntimeError"
    /\ \E i \in 1..Len(history[e].invocations) :
         /\ history[e].invocations[i].raised = "RuntimeError"
         /\ Len(history[e].invocations[i].calls) = 1

(* C6: with a command line that names a target, any two invocations make   *)
(* one exporter call each, identical in filepath and every option.         *)
C6_Idempotent ==
  \A r1, r2 \in Results :
    /\ Len(r1.calls) = Len(r2.calls)
    /\ \A n \in 1..Len(r1.calls) : r1.calls[n] = r2.calls[n]
    /\ Resolvable(argv) => Len(r1.calls) = 1

(* C6 witness: two load events after registration, both with an exporter   *)
(* call.                                                                   *)
C6_Witness ==
  /\ Len(history) >= 2
  /\ \A e \in Events :
       /\ Len(history[e].invocations) = 1
       /\ Len(history[e].invocations[1].calls) = 1

(* C7: once the script has run, load_post holds the export handler exactly *)
(* once and keeps it across loads, and every load event after that invokes *)
(* export exactly once, with at most one exporter call.                    *)
C7_OneInvocationPerLoad ==
  /\ ~scriptRun => load_post = <<>>
  /\ scriptRun => Len(load_post) = 1 /\ load_post[1].fn = "export"
  /\ \A e \in Events :
       IF history[e].registered
       THEN /\ Len(history[e].invocations) = 1
            /\ Len(history[e].invocations[1].calls) <= 1
       ELSE history[e].invocations = <<>>

(* C7 witness: two load events after registration, the handler still on    *)
(* the list.                                                               *)
C7_Witness ==
  /\ scriptRun
  /\ Len(load_post) = 1
  /\ Cardinality({e \in Events : history[e].registered
                                 /\ Len(history[e].invocations) = 1}) >= 2

(* C8: what export prints and what it passes to the exporter do not depend *)
(* on the arguments the host calls it with.                                *)
C8_HostArgsIgnored ==
  \A e1, e2 \in Events :
    \A i1 \in 1..Len(history[e1].invocations) :
      \A i2 \in 1..Len(history[e2].invocations) :
        LET r1 == history[e1].invocations[i1]
            r2 == history[e2].invocations[i2]
        IN history[e1].hostargs # history[e2].hostargs =>
             /\ r1.stdout = r2.stdout
             /\ r1.calls = r2.calls
             /\ history[e1].gltf = history[e2].gltf => r1.raised = r2.raised

(* C8 witness: two invocations with different host arguments gave the same *)
(* exporter call.                                                          *)
C8_Witness ==
  \E e1, e2 \in Events :
    /\ history[e1].hostargs = <<>>
    /\ history[e2].hostargs # <<>>
    /\ Len(history[e1].invocations) = 1
    /\ Len(history[e2].invocations) = 1
    /\ history[e1].invocations[1].calls # <<>>
    /\ history[e1].invocations[1].calls = history[e2].invocations[1].calls

(* C9: every invocation either prints the usage message and calls the      *)
(* exporter zero times, or calls it exactly once and prints nothing.       *)
C9_ExactlyOneOutcome ==
  \A r \in Results :
    \/ PrintedUsage(r) /\ Len(r.calls) = 0
    \/ r.stdout = <<>> /\ Len(r.calls) = 1

(* C9 witness: an invocation ended in an exporter call that failed, and    *)
(* nothing was printed.                                                    *)
C9_Witness ==
  \E r \in Results :
    r.stdout = <<>> /\ Len(r.calls) = 1 /\ r.raised = "RuntimeError"

(* C10: with more than one "--", the target is the argument after the      *)
(* first one, whatever it is, and the arguments after the target change    *)
(* nothing.                                                                *)
C10_FirstOccurrenceWins ==
  \A e \in Events :
    \A i \in 1..Len(history[e].invocations) :
      LET r == history[e].invocations[i]
          k == FirstSep(argv)
      IN Cardinality(SepPositions(argv)) >= 2 =>
           /\ Len(r.calls) = 1
           /\ r.calls[1].filepath = argv[k + 1]
           /\ r.stdout = <<>>
           /\ r = export(history[e].hostargs, SubSeq(argv, 1, k + 1),
                         history[e].gltf)

(* C10 witness: the argument after the first "--" was "--" itself or the   *)
(* empty string, a later "--" had a path after it, and the exporter got    *)
(* the former.                                                             *)
C10_Witness ==
  /\ Len(argv) >= 3
  /\ \E j \in SepPositions(argv) :
       j > FirstSep(argv) /\ j < Len(argv) /\ argv[j + 1] = "m.glb"
  /\ argv[FirstSep(argv) + 1] \in {"--", ""}
  /\ \E r \in Results :
       Len(r.calls) = 1 /\ r.calls[1].filepath = argv[FirstSep(argv) + 1]

====
